---- MODULE Spec2Model ----
(***************************************************************************)
(* A model of the retrieval-augmented generation pipeline of ai-lawyer:    *)
(* the vector index (vector_store.py), ingest (document_processor.py,      *)
(* legal_ai_system.py) and the four-stage response generator               *)
(* (legal_agents.py).                                                       *)
(* batch holds the position of a batch_process_pdfs call, call the last    *)
(* call of an index operation or of a pure function, ingests the position  *)
(* of each of two concurrent process_and_store_pdf calls.                  *)
(*                                                                         *)
(* Text is a sequence of tokens.  In a model reply the section markers,    *)
(* the comma, the blank and the numbers are single tokens; in a document   *)
(* the tokens are characters.  Floating values are kept in tenths          *)
(* (0.5 is 5, 1.0 is 10).                                                   *)
(***************************************************************************)
EXTENDS Integers, Sequences, FiniteSets, TLC

VARIABLES index, uuid, ing, rsp, batch, call, ingests

vars == <<index, uuid, ing, rsp, batch, call, ingests>>

----------------------------------------------------------------------------
(* Bounds of the model *)

MaxReplyLen == 4
MaxIngests == 1
MaxDocs == 2
MaxBatch == 2
MaxClassifyLen == 2
MaxExtractLen == 4
MaxStored == 3
MaxTextLen == 4
MaxChunkSize == 3

----------------------------------------------------------------------------
(* Text *)

Space == " "
Newline == "\n"
Whitespace == {Space, Newline}

RECURSIVE LStrip(_)
LStrip(s) ==
    IF s # <<>> /\ Head(s) \in Whitespace THEN LStrip(Tail(s)) ELSE s

RECURSIVE RStrip(_)
RStrip(s) ==
    IF s # <<>> /\ s[Len(s)] \in Whitespace
    THEN RStrip(SubSeq(s, 1, Len(s) - 1))
    ELSE s

RECURSIVE Strip_SpacesOnly(_)
\* Strip as strip(" ") would do it: line breaks are kept
Strip_SpacesOnly(s) ==
    IF s # <<>> /\ Head(s) = Space THEN Strip_SpacesOnly(Tail(s))
    ELSE IF s # <<>> /\ s[Len(s)] = Space
    THEN Strip_SpacesOnly(SubSeq(s, 1, Len(s) - 1))
    ELSE s

\* str.strip()
Strip(s) == RStrip(LStrip(s))

\* `sep in s` for a one-token separator
InText(sep, s) == \E i \in 1..Len(s) : s[i] = sep

\* s.find(sep) + 1, 0 when absent
Find(s, sep) ==
    IF InText(sep, s)
    THEN CHOOSE i \in 1..Len(s) : s[i] = sep /\ \A j \in 1..(i - 1) : s[j] # sep
    ELSE 0

\* s.split(sep): the pieces between every occurrence of sep
RECURSIVE Split(_, _)
Split(s, sep) ==
    LET i == Find(s, sep)
    IN  IF i = 0
        THEN <<s>>
        ELSE <<SubSeq(s, 1, i - 1)>> \o Split(SubSeq(s, i + 1, Len(s)), sep)

RECURSIVE JoinPieces(_, _)
\* sep.join(pieces)
JoinPieces(pieces, sep) ==
    IF pieces = <<>> THEN <<>>
    ELSE IF Len(pieces) = 1 THEN pieces[1]
    ELSE pieces[1] \o <<sep>> \o JoinPieces(Tail(pieces), sep)

SeqsUpTo(S, n) == UNION {[1..k -> S] : k \in 0..n}

----------------------------------------------------------------------------
(* Parsing of the Evaluate reply: legal_agents.py 222-247 *)

CONFIDENCE == "CONFIDENCE:"
REASONING == "REASONING:"
KEY_POINTS == "KEY_POINTS:"
Comma == ","

NumberTokens == {"0.8", "1.5", "-0.2"}

EvalTokens == {CONFIDENCE, REASONING, KEY_POINTS, Comma, Space, "w"} \cup NumberTokens

\* every reply of the completion service up to the bound
EvalReplies == SeqsUpTo(EvalTokens, MaxReplyLen)

\* float(s) succeeds
FloatParses(s) == Len(s) = 1 /\ s[1] \in NumberTokens

\* float(s), in tenths
FloatOf(s) ==
    CASE s[1] = "0.8" -> 8
      [] s[1] = "1.5" -> 15
      [] s[1] = "-0.2" -> 0 - 2

DefaultConfidence == 5
ErrorConfidence == 0
ConfidenceGe == 0
ConfidenceLe == 10

StandardEvaluation == <<"Standard evaluation">>
EvaluationFailed == <<"Evaluation failed">>
ErrorReasoning == <<"Error occurred during response generation">>
ErrorText == "Error generating response. Please try again."

NonBlank(p) == Strip(p) # <<>>

\* [p.strip() for p in section.strip().split(",") if p.strip()]
ListItems(section) ==
    LET pieces == SelectSeq(Split(Strip(section), Comma), NonBlank)
    IN  [i \in 1..Len(pieces) |-> Strip(pieces[i])]

\* ParseConfidence with 0.0 kept when float() raises
ParseConfidence_ZeroDefault(eval_text) ==
    LET conf_section == Split(Split(eval_text, CONFIDENCE)[2], REASONING)[1]
    IN  IF InText(CONFIDENCE, eval_text)
        THEN IF FloatParses(Strip(conf_section))
             THEN FloatOf(Strip(conf_section))
             ELSE ErrorConfidence
        ELSE DefaultConfidence

ParseConfidence(eval_text) ==
    LET conf_section == Split(Split(eval_text, CONFIDENCE)[2], REASONING)[1]
    IN  IF InText(CONFIDENCE, eval_text) /\ FloatParses(Strip(conf_section))
        THEN FloatOf(Strip(conf_section))
        ELSE DefaultConfidence

\* ParseReasoning reading the section only when KEY_POINTS: closes it
ParseReasoning_NeedsKeyPoints(eval_text) ==
    IF InText(REASONING, eval_text) /\ InText(KEY_POINTS, eval_text)
    THEN Strip(Split(Split(eval_text, REASONING)[2], KEY_POINTS)[1])
    ELSE StandardEvaluation

ParseReasoning(eval_text) ==
    IF InText(REASONING, eval_text)
    THEN Strip(Split(Split(eval_text, REASONING)[2], KEY_POINTS)[1])
    ELSE StandardEvaluation

ParseKeyPoints(eval_text) ==
    IF InText(KEY_POINTS, eval_text)
    THEN ListItems(Split(eval_text, KEY_POINTS)[2])
    ELSE <<>>

\* the dictionary returned by _evaluate_response_quality for a reply
ParseEvaluation(eval_text) ==
    [confidence |-> ParseConfidence(eval_text),
     reasoning  |-> ParseReasoning(eval_text),
     key_points |-> ParseKeyPoints(eval_text)]

\* EvaluationFallback reporting no confidence at all
EvaluationFallback_Zero ==
    [confidence |-> ErrorConfidence,
     reasoning  |-> EvaluationFailed,
     key_points |-> <<>>]

\* the dictionary returned when the completion call raises
EvaluationFallback ==
    [confidence |-> DefaultConfidence,
     reasoning  |-> EvaluationFailed,
     key_points |-> <<>>]

----------------------------------------------------------------------------
(* LegalResponse: models.py 24-33 *)

\* the ge/le constraint of confidence_score
ValidConfidence(c) == ConfidenceGe <= c /\ c <= ConfidenceLe

\* FullResponse with the tone fixed instead of taken from the request
FullResponse_FixedTone(document, response_type, suggested_response, confidence_analysis) ==
    [document_id        |-> document.id,
     response_type      |-> response_type,
     suggested_response |-> suggested_response,
     confidence_score   |-> confidence_analysis.confidence,
     reasoning          |-> confidence_analysis.reasoning,
     key_points         |-> confidence_analysis.key_points,
     tone               |-> "professional"]

FullResponse(document, response_type, suggested_response, confidence_analysis) ==
    [document_id        |-> document.id,
     response_type      |-> response_type,
     suggested_response |-> suggested_response,
     confidence_score   |-> confidence_analysis.confidence,
     reasoning          |-> confidence_analysis.reasoning,
     key_points         |-> confidence_analysis.key_points,
     tone               |-> response_type]

ErrorResponse(document, response_type) ==
    [document_id        |-> document.id,
     response_type      |-> response_type,
     suggested_response |-> ErrorText,
     confidence_score   |-> ErrorConfidence,
     reasoning          |-> ErrorReasoning,
     key_points         |-> <<>>,
     tone               |-> "error"]

\* BuildResponse over a LegalResponse whose confidence_score has no ge/le constraint
BuildResponse_Unvalidated(document, response_type, suggested_response, confidence_analysis) ==
    [document_id        |-> document.id,
     response_type      |-> response_type,
     suggested_response |-> suggested_response,
     confidence_score   |-> confidence_analysis.confidence,
     reasoning          |-> confidence_analysis.reasoning,
     key_points         |-> confidence_analysis.key_points,
     tone               |-> response_type]

\* BuildResponse putting the default confidence in place of a rejected one
BuildResponse_FallsBack(document, response_type, suggested_response, confidence_analysis) ==
    IF ValidConfidence(confidence_analysis.confidence)
    THEN FullResponse(document, response_type, suggested_response, confidence_analysis)
    ELSE FullResponse(document, response_type, suggested_response,
                      [confidence_analysis EXCEPT !.confidence = DefaultConfidence])

\* what the try block of generate_legal_response returns after stage 4:
\* the LegalResponse, or the except branch when validation rejects it
BuildResponse(document, response_type, suggested_response, confidence_analysis) ==
    IF ValidConfidence(confidence_analysis.confidence)
    THEN FullResponse(document, response_type, suggested_response, confidence_analysis)
    ELSE ErrorResponse(document, response_type)

----------------------------------------------------------------------------
(* The vector index: vector_store.py *)

\* dict.get(key, default)
Get(d, key, default) == IF key \in DOMAIN d THEN d[key] ELSE default

\* distances the index can report, in tenths
Distances == {0, 3, 15}

PrecedentK == 3

Min(a, b) == IF a < b THEN a ELSE b

\* collection.query: the n_results nearest rows, nearest first
QueryRows(idx, n_results) ==
    LET k == Min(n_results, Cardinality(idx))
    IN  {q \in [1..k -> idx \X Distances] :
            /\ \A i, j \in 1..k : i # j => q[i][1] # q[j][1]
            /\ \A i \in 1..(k - 1) : q[i][2] <= q[i + 1][2]}

SearchResult(row, similarity_score) ==
    [chunk_id         |-> row.id,
     document_id      |-> row.metadata.document_id,
     content          |-> row.content,
     similarity_score |-> similarity_score,
     metadata         |-> row.metadata]

\* search_similar scoring a row by its distance
search_similar_ByDistance(idx, n_results) ==
    {[ok |-> FALSE, results |-> <<>>]} \cup
    {[ok |-> TRUE,
      results |-> [i \in 1..Len(q) |-> SearchResult(q[i][1], q[i][2])]] :
        q \in QueryRows(idx, n_results)}

\* search_similar: the results, or [] when the embedding or the query raises
search_similar(idx, n_results) ==
    {[ok |-> FALSE, results |-> <<>>]} \cup
    {[ok |-> TRUE,
      results |-> [i \in 1..Len(q) |-> SearchResult(q[i][1], 10 - q[i][2])]] :
        q \in QueryRows(idx, n_results)}

----------------------------------------------------------------------------
(* The response generator: legal_agents.py *)

NoPrecedents == "No similar precedents found in the knowledge base."
PrecedentsFound == "Similar precedents found:"

\* PrecedentText rendering no result as an empty block
PrecedentText_EmptyString(results) ==
    IF results = <<>> THEN [header |-> "", entries |-> <<>>]
    ELSE [header |-> PrecedentsFound,
          entries |-> [i \in 1..Len(results) |->
                [n |-> i,
                 filename |-> Get(results[i].metadata, "filename", "Unknown"),
                 relevance |-> results[i].similarity_score,
                 content |-> results[i].content]]]

\* PrecedentSearchTool._run: the precedent block rendered from the results
PrecedentText(results) ==
    IF results = <<>>
    THEN [header |-> NoPrecedents, entries |-> <<>>]
    ELSE [header  |-> PrecedentsFound,
          entries |-> [i \in 1..Len(results) |->
                          [n         |-> i,
                           filename  |-> Get(results[i].metadata, "filename", "Unknown"),
                           relevance |-> results[i].similarity_score,
                           content   |-> results[i].content]]]

NoText == "(unset)"
NoPrecedentText == [header |-> NoText, entries |-> <<>>]

AnalysisTexts == {"analysis"}
GenerateTexts == {"reply A", "reply B"}
ResponseTypes == {"professional", "error"}

Stages == <<"Analyze", "RetrievePrecedents", "Generate", "Evaluate">>

NoDocument ==
    [id |-> 0, filename |-> NoText, content |-> <<>>, document_type |-> NoText,
     parties_involved |-> <<>>, key_issues |-> <<>>]

NoResponse == ErrorResponse(NoDocument, NoText)

\* no call of generate_response_for_document / generate_legal_response in progress
IdleRsp ==
    [pc                 |-> "idle",
     document_id        |-> 0,
     document           |-> NoDocument,
     response_type      |-> NoText,
     analysis           |-> NoText,
     precedents         |-> NoPrecedentText,
     suggested_response |-> NoText,
     eval_text          |-> <<>>,
     trace              |-> <<>>,
     failed             |-> {},
     returned           |-> "pending",
     response           |-> NoResponse]

\* entry of generate_legal_response(document, response_type)
StartGenerate(document, response_type) ==
    [IdleRsp EXCEPT !.pc = "Analyzing",
                    !.document_id = document.id,
                    !.document = document,
                    !.response_type = response_type]

\* RaiseFrom without the try/except of generate_legal_response: the exception leaves the call
RaiseFrom_Propagates(r, stage) ==
    [r EXCEPT !.pc = "Done",
              !.trace = Append(@, stage),
              !.failed = @ \cup {stage},
              !.returned = "raised"]

\* RaiseFrom with the failed stage tried again
RaiseFrom_Retry(r, stage) ==
    [r EXCEPT !.trace = Append(@, stage),
              !.failed = @ \cup {stage}]

\* the except branch of generate_legal_response, entered from stage `stage`
RaiseFrom(r, stage) ==
    [r EXCEPT !.pc = "Done",
              !.trace = Append(@, stage),
              !.failed = @ \cup {stage},
              !.returned = "Response",
              !.response = ErrorResponse(r.document, r.response_type)]

\* stage 1: analysis_tool._run, one completion call with no handler of its own
Analyze ==
    /\ rsp.pc = "Analyzing"
    /\ \/ \E analysis \in AnalysisTexts :
            rsp' = [rsp EXCEPT !.pc = "RetrievingPrecedents",
                               !.analysis = analysis,
                               !.trace = Append(@, "Analyze")]
       \/ rsp' = RaiseFrom(rsp, "Analyze")
    /\ UNCHANGED <<index, uuid, ing, batch, call, ingests>>

\* stage 2: precedent_tool._run over search_similar(query, n_results=3)
RetrievePrecedents ==
    /\ rsp.pc = "RetrievingPrecedents"
    /\ \E found \in search_similar(index, PrecedentK) :
            rsp' = [rsp EXCEPT !.pc = "Generating",
                               !.precedents = PrecedentText(found.results),
                               !.trace = Append(@, "RetrievePrecedents"),
                               !.failed = IF found.ok THEN @
                                          ELSE @ \cup {"RetrievePrecedents"}]
    /\ UNCHANGED <<index, uuid, ing, batch, call, ingests>>

\* stage 3: response_tool._run, one completion call with no handler of its own;
\* analysis and precedents are read here for the last time and are not kept
Generate ==
    /\ rsp.pc = "Generating"
    /\ \/ \E suggested_response \in GenerateTexts :
            rsp' = [rsp EXCEPT !.pc = "Evaluating",
                               !.suggested_response = suggested_response,
                               !.analysis = NoText,
                               !.precedents = NoPrecedentText,
                               !.trace = Append(@, "Generate")]
       \/ rsp' = [RaiseFrom(rsp, "Generate") EXCEPT !.analysis = NoText,
                                                   !.precedents = NoPrecedentText]
    /\ UNCHANGED <<index, uuid, ing, batch, call, ingests>>

\* the rest of generate_legal_response once _evaluate_response_quality returned
Finish(r, confidence_analysis) ==
    [r EXCEPT !.pc = "Done",
              !.trace = Append(@, "Evaluate"),
              !.returned = "Response",
              !.response = BuildResponse(r.document, r.response_type,
                                         r.suggested_response, confidence_analysis)]

\* stage 4 without the handler of _evaluate_response_quality: a failed
\* completion call reaches the except branch of generate_legal_response
Evaluate_FailureEscapes(replies) ==
    /\ rsp.pc = "Evaluating"
    /\ \/ \E eval_text \in replies :
            rsp' = [Finish(rsp, ParseEvaluation(eval_text)) EXCEPT
                        !.eval_text = eval_text]
       \/ rsp' = RaiseFrom(rsp, "Evaluate")
    /\ UNCHANGED <<index, uuid, ing, batch, call, ingests>>

\* stage 4: _evaluate_response_quality, then the LegalResponse is built
Evaluate(replies) ==
    /\ rsp.pc = "Evaluating"
    /\ \/ \E eval_text \in replies :
            rsp' = [Finish(rsp, ParseEvaluation(eval_text)) EXCEPT
                        !.eval_text = eval_text]
       \/ rsp' = [Finish(rsp, EvaluationFallback) EXCEPT
                        !.failed = @ \cup {"Evaluate"}]
    /\ UNCHANGED <<index, uuid, ing, batch, call, ingests>>

----------------------------------------------------------------------------
(* Fact extraction: document_processor.py 43-115 *)

LEGAL_LETTER == "legal_letter"
DocumentType == {LEGAL_LETTER, "contract", "notice", "complaint", "response"}

\* str.lower() of one token
LowerToken(t) ==
    CASE t = "NOTICE" -> "notice"
      [] t = "Contract" -> "contract"
      [] OTHER -> t

Lower(s) == [i \in 1..Len(s) |-> LowerToken(s[i])]

\* replies of the classification call
ClassifyReplies == {<<Space, "Contract">>, <<"memo">>}

\* the reply taken as the type without looking it up in type_mapping
MapDocumentType_Unmapped(reply) ==
    LET doc_type_str == Lower(Strip(reply))
    IN  IF Len(doc_type_str) = 1 THEN doc_type_str[1] ELSE LEGAL_LETTER

\* classify_document_type on a reply: type_mapping.get(doc_type_str, LEGAL_LETTER)
MapDocumentType(reply) ==
    LET doc_type_str == Lower(Strip(reply))
    IN  IF Len(doc_type_str) = 1 /\ doc_type_str[1] \in DocumentType
        THEN doc_type_str[1]
        ELSE LEGAL_LETTER

PARTIES == "PARTIES:"
ISSUES == "ISSUES:"

\* replies of the extraction call
ExtractReplies == {<<PARTIES, "p", ISSUES, "i">>}

ParseParties(response_text) ==
    IF InText(PARTIES, response_text)
    THEN ListItems(Split(Split(response_text, PARTIES)[2], ISSUES)[1])
    ELSE <<>>

\* ParseIssues with the ISSUES: test nested under the PARTIES: test
ParseIssues_NeedsParties(response_text) ==
    IF InText(PARTIES, response_text) /\ InText(ISSUES, response_text)
    THEN ListItems(Split(response_text, ISSUES)[2])
    ELSE <<>>

ParseIssues(response_text) ==
    IF InText(ISSUES, response_text)
    THEN ListItems(Split(response_text, ISSUES)[2])
    ELSE <<>>

\* the tokens of a classification reply
ClassifyTokens ==
    {Space, Newline, "contract", "Contract", "notice", "NOTICE", "complaint",
     "response", "legal_letter", "legal", "memo"}

\* every classification reply up to the bound
AllClassifyReplies == SeqsUpTo(ClassifyTokens, MaxClassifyLen)

\* outcomes of classify_document_type: the mapped reply, or the default when the call raises
classify_document_type == {MapDocumentType(reply) : reply \in ClassifyReplies} \cup {LEGAL_LETTER}

\* the tokens of an extraction reply
ExtractTokens == {PARTIES, ISSUES, Comma, Space, "p", "i"}

\* every extraction reply up to the bound
AllExtractReplies == SeqsUpTo(ExtractTokens, MaxExtractLen)

\* outcomes of extract_parties_and_issues: the parsed reply, or ([], []) when the call raises
extract_parties_and_issues ==
    {<<ParseParties(reply), ParseIssues(reply)>> : reply \in ExtractReplies} \cup {<<(<<>>), (<<>>)>>}

----------------------------------------------------------------------------
(* Ingest: document_processor.py 31-41, 117-196, legal_ai_system.py 25-50 *)

\* the sources: the page texts of a PDF file (no page, blank pages, one page of text)
Sources ==
    {<<>>,
     <<(<<Space>>)>>,
     <<(<<>>), (<<Space>>)>>,
     <<(<<"a", "b">>)>>,
     <<(<<Space, "a", "b">>)>>}

RECURSIVE PagesText(_)
\* text += page.extract_text() + "\n" over the pages
PagesText(pages) ==
    IF pages = <<>> THEN <<>>
    ELSE Head(pages) \o <<Newline>> \o PagesText(Tail(pages))

\* extract_text_from_pdf when the file can be read
extract_text_from_pdf(pages) == Strip(PagesText(pages))

RECURSIVE Pieces(_)
\* the cuts of a text into consecutive non-empty pieces
Pieces(text) ==
    IF text = <<>> THEN {<<>>}
    ELSE UNION {{<<SubSeq(text, 1, i)>> \o rest :
                    rest \in Pieces(SubSeq(text, i + 1, Len(text)))} :
                i \in 1..Len(text)}

\* text_splitter.split_text: the fragment sequences the splitter can return for
\* a non-empty text, kept here as its cuts into consecutive pieces
split_text(content) == Pieces(content)

\* create_chunks: the fragments, or [] when the splitter raises
FragmentOutcomes(content) == split_text(content) \cup {<<>>}

\* the chunk list with chunk_index counted from 1
Chunks_OneBased(text_chunks, document_id, metadata, first_id) ==
    [i \in 1..Len(text_chunks) |->
        [id          |-> first_id + i - 1,
         document_id |-> document_id,
         content     |-> text_chunks[i],
         chunk_index |-> i,
         metadata    |-> metadata]]

\* the DocumentChunk list built by the loop of create_chunks; ids are fresh uuids
Chunks(text_chunks, document_id, metadata, first_id) ==
    [i \in 1..Len(text_chunks) |->
        [id          |-> first_id + i - 1,
         document_id |-> document_id,
         content     |-> text_chunks[i],
         chunk_index |-> i - 1,
         metadata    |-> metadata]]

\* the metadata dictionary add_chunks writes for a chunk
StoredMetadata(chunk) ==
    chunk.metadata @@
    [document_id   |-> chunk.document_id,
     chunk_index   |-> chunk.chunk_index,
     filename      |-> Get(chunk.metadata, "filename", ""),
     document_type |-> Get(chunk.metadata, "document_type", "")]

\* the rows collection.add writes for a batch
Rows(chunks) ==
    {[id       |-> chunks[i].id,
      content  |-> chunks[i].content,
      metadata |-> StoredMetadata(chunks[i])] : i \in 1..Len(chunks)}

None == "None"

\* ProcessingResult, models.py 52-57; NoDocument and None stand for an absent field
ProcessingResult(success, document, chunks, error_message) ==
    [success |-> success, document |-> document, chunks |-> chunks,
     error_message |-> error_message]

NoTextContent == "No text content extracted from PDF"
ExtractError == "Error extracting text from PDF"
StoreError == "Failed to store document in vector database"

Filenames == {"f.pdf"}

\* add_chunks writing each chunk as soon as its embedding is computed
add_chunks_PerChunk(idx, chunks) ==
    {[returned |-> FALSE, failure |-> "embedding", embedded |-> e,
      index |-> idx \cup Rows(SubSeq(chunks, 1, e))] : e \in 0..(Len(chunks) - 1)}
    \cup {[returned |-> FALSE, failure |-> "write", embedded |-> Len(chunks),
           index |-> idx \cup Rows(SubSeq(chunks, 1, Len(chunks) - 1))],
          [returned |-> TRUE, failure |-> "none", embedded |-> Len(chunks),
           index |-> idx \cup Rows(chunks)]}

\* add_chunks(chunks), vector_store.py 34-68: the loop computes the embedding of
\* every chunk, then one collection.add writes the batch.  The outcomes: the
\* embedding call raises after e chunks, collection.add raises, or the batch
\* is written
add_chunks(idx, chunks) ==
    {[returned |-> FALSE, failure |-> "embedding", embedded |-> e,
      index |-> idx] : e \in 0..(Len(chunks) - 1)}
    \cup {[returned |-> FALSE, failure |-> "write", embedded |-> Len(chunks),
           index |-> idx],
          [returned |-> TRUE, failure |-> "none", embedded |-> Len(chunks),
           index |-> idx \cup Rows(chunks)]}

\* add_chunks was not called
NotAdded == [called |-> FALSE, returned |-> FALSE, failure |-> "none", embedded |-> 0]

\* no process_and_store_pdf call made yet
IdleIng ==
    [calls      |-> 0,
     source     |-> <<>>,
     readable   |-> TRUE,
     add_called |-> FALSE,
     add        |-> NotAdded,
     result     |-> ProcessingResult(FALSE, NoDocument, <<>>, None)]

\* ProcessText with the document id taken from the file instead of a fresh uuid
ProcessText_SameId(content, filename, document_type, facts, text_chunks) ==
    LET document_id == 1
        document == [id               |-> document_id,
                     filename         |-> filename,
                     content          |-> content,
                     document_type    |-> document_type,
                     parties_involved |-> facts[1],
                     key_issues       |-> facts[2]]
        chunk_metadata == [filename         |-> filename,
                           document_type    |-> document_type,
                           parties_involved |-> facts[1],
                           key_issues       |-> facts[2]]
    IN  ProcessingResult(TRUE, document,
                         Chunks(text_chunks, document_id, chunk_metadata, uuid + 2),
                         None)

\* process_pdf after the text was extracted and found non-blank
ProcessText(content, filename, document_type, facts, text_chunks) ==
    LET document_id == uuid + 1
        document == [id               |-> document_id,
                     filename         |-> filename,
                     content          |-> content,
                     document_type    |-> document_type,
                     parties_involved |-> facts[1],
                     key_issues       |-> facts[2]]
        chunk_metadata == [filename         |-> filename,
                           document_type    |-> document_type,
                           parties_involved |-> facts[1],
                           key_issues       |-> facts[2]]
    IN  ProcessingResult(TRUE, document,
                         Chunks(text_chunks, document_id, chunk_metadata, uuid + 2),
                         None)

\* the result with success left True when add_chunks returned False
StoreFailed_KeepsSuccess(result) == [result EXCEPT !.error_message = StoreError]

\* legal_ai_system.py 41-43: the result when add_chunks returned False
StoreFailed(result) ==
    [result EXCEPT !.success = FALSE, !.error_message = StoreError]

\* process_and_store_pdf(pdf_path) on the file whose pages are given:
\* process_pdf, then add_chunks when there are chunks
process_and_store_pdf(pages) ==
    \E readable \in BOOLEAN, filename \in Filenames :
        LET content == extract_text_from_pdf(pages)
            called(result, add) ==
                ing' = [calls |-> ing.calls + 1, source |-> pages,
                        readable |-> readable, add_called |-> add.called,
                        add |-> add, result |-> result]
        IN  IF ~readable
            THEN /\ called(ProcessingResult(FALSE, NoDocument, <<>>, ExtractError),
                           NotAdded)
                 /\ UNCHANGED <<index, uuid>>
            ELSE IF Strip(content) = <<>>
            THEN /\ called(ProcessingResult(FALSE, NoDocument, <<>>, NoTextContent),
                           NotAdded)
                 /\ UNCHANGED <<index, uuid>>
            ELSE \E document_type \in classify_document_type,
                    facts \in extract_parties_and_issues,
                    text_chunks \in FragmentOutcomes(content) :
                    LET result == ProcessText(content, filename, document_type,
                                              facts, text_chunks)
                    IN  /\ uuid' = uuid + 1 + Len(result.chunks)
                        /\ IF result.chunks = <<>>
                           THEN /\ called(result, NotAdded)
                                /\ index' = index
                           ELSE \E added \in add_chunks(index, result.chunks) :
                                    /\ called(IF added.returned THEN result
                                              ELSE StoreFailed(result),
                                              [called   |-> TRUE,
                                               returned |-> added.returned,
                                               failure  |-> added.failure,
                                               embedded |-> added.embedded])
                                    /\ index' = added.index

\* one ingest call of the running system
Ingest ==
    /\ ing.calls < MaxIngests
    /\ \E pages \in Sources : process_and_store_pdf(pages)
    /\ UNCHANGED <<rsp, batch, call, ingests>>

----------------------------------------------------------------------------
(* Respond: vector_store.py 98-121, legal_ai_system.py 52-85 *)

\* the orders in which a set of rows can be listed
Orders(rows) ==
    {o \in [1..Cardinality(rows) -> rows] :
        \A i, j \in 1..Cardinality(rows) : i # j => o[i] # o[j]}

\* get_document_chunks without the where filter
get_document_chunks_Unfiltered(idx, document_id) ==
    {[ok |-> FALSE, results |-> <<>>]} \cup
    {[ok |-> TRUE, results |-> [i \in 1..Cardinality(idx) |-> SearchResult(o[i], 10)]] :
        o \in {f \in [1..Cardinality(idx) -> idx] :
                \A i, j \in 1..Cardinality(idx) : i # j => f[i] # f[j]}}

\* get_document_chunks keeping one row of the document
get_document_chunks_FirstOnly(idx, document_id) ==
    {[ok |-> FALSE, results |-> <<>>]} \cup
    {[ok |-> TRUE, results |-> [i \in 1..Min(1, Len(o)) |-> SearchResult(o[i], 10)]] :
        o \in Orders({row \in idx : row.metadata.document_id = document_id})}

\* get_document_chunks: the rows of the document in the order collection.get
\* lists them, or [] when it raises
get_document_chunks(idx, document_id) ==
    {[ok |-> FALSE, results |-> <<>>]} \cup
    {[ok |-> TRUE, results |-> [i \in 1..Len(o) |-> SearchResult(o[i], 10)]] :
        o \in Orders({row \in idx : row.metadata.document_id = document_id})}

Contents(chunks) == [i \in 1..Len(chunks) |-> chunks[i].content]

\* the LegalDocument rebuilt from the chunks, legal_ai_system.py 62-77
RebuiltDocument(document_id, chunks) ==
    LET metadata == chunks[1].metadata
    IN  [id               |-> document_id,
         filename         |-> Get(metadata, "filename", "Unknown"),
         content          |-> JoinPieces(Contents(chunks), Newline),
         document_type    |-> Get(metadata, "document_type", LEGAL_LETTER),
         parties_involved |-> Get(metadata, "parties_involved", <<>>),
         key_issues       |-> Get(metadata, "key_issues", <<>>)]

\* entry of generate_response_for_document(document_id, response_type) up to
\* the call of generate_legal_response
generate_response_for_document ==
    /\ rsp.pc \in {"idle", "Done"}
    /\ \E document_id \in 0..uuid, response_type \in ResponseTypes :
        \E got \in get_document_chunks(index, document_id) :
            LET chunks == got.results
            IN  rsp' = IF chunks = <<>>
                       THEN [IdleRsp EXCEPT !.pc = "Done",
                                            !.document_id = document_id,
                                            !.response_type = response_type,
                                            !.returned = None]
                       ELSE StartGenerate(RebuiltDocument(document_id, chunks),
                                          response_type)
    /\ UNCHANGED <<index, uuid, ing, batch, call, ingests>>

----------------------------------------------------------------------------
(* Concurrent ingest calls: legal_ai_system.py 25-50 run by two callers, with
   generate_response_for_document as a reader.  A step holds at most one
   operation on the index: process_pdf works on the caller's file and on
   fresh uuids, add_chunks reaches the index in its one collection.add, and
   the reader in its one collection.get. *)

Callers == {"A", "B"}

\* the file of each caller
CallerSource(p) ==
    IF p = "A" THEN <<(<<"a", "b">>)>> ELSE <<(<<Space, "a", "b">>)>>

\* a caller that has not started
IdleIngest ==
    [pc     |-> "start",
     add    |-> NotAdded,
     result |-> ProcessingResult(FALSE, NoDocument, <<>>, None)]

IdleIngests == [p \in Callers |-> IdleIngest]

\* the results process_pdf can return for a file
process_pdf(pages) ==
    LET content == extract_text_from_pdf(pages)
    IN  {ProcessingResult(FALSE, NoDocument, <<>>, ExtractError)} \cup
        IF Strip(content) = <<>>
        THEN {ProcessingResult(FALSE, NoDocument, <<>>, NoTextContent)}
        ELSE {ProcessText(content, filename, document_type, facts, text_chunks) :
                filename \in Filenames,
                document_type \in classify_document_type,
                facts \in extract_parties_and_issues,
                text_chunks \in FragmentOutcomes(content)}

\* legal_ai_system.py 34: result = self.document_processor.process_pdf(pdf_path)
ProcessPdf(p) ==
    /\ ingests[p].pc = "start"
    /\ \E result \in process_pdf(CallerSource(p)) :
        /\ uuid' = IF result.document = NoDocument THEN uuid
                   ELSE uuid + 1 + Len(result.chunks)
        /\ ingests' = [ingests EXCEPT ![p].result = result,
                                      ![p].pc = IF result.chunks # <<>> THEN "adding"
                                                ELSE "returning"]
    /\ UNCHANGED <<index, ing, rsp, batch, call>>

\* legal_ai_system.py 37-38: storage_success = self.vector_store.add_chunks(result.chunks)
StoreChunks(p) ==
    /\ ingests[p].pc = "adding"
    /\ \E added \in add_chunks(index, ingests[p].result.chunks) :
        /\ index' = added.index
        /\ ingests' = [ingests EXCEPT ![p].add = [called   |-> TRUE,
                                                  returned |-> added.returned,
                                                  failure  |-> added.failure,
                                                  embedded |-> added.embedded],
                                      ![p].pc = "returning"]
    /\ UNCHANGED <<uuid, ing, rsp, batch, call>>

\* legal_ai_system.py 39-43: the failure of add_chunks is recorded and the result returned
ReturnResult(p) ==
    /\ ingests[p].pc = "returning"
    /\ ingests' = [ingests EXCEPT ![p].result =
                                      IF ingests[p].add.called /\ ~ingests[p].add.returned
                                      THEN StoreFailed(@) ELSE @,
                                  ![p].pc = "done"]
    /\ UNCHANGED <<index, uuid, ing, rsp, batch, call>>

----------------------------------------------------------------------------
(* The Chunker, as the specification describes it (section 4.1): the
   splitter itself is the library class configured at document_processor.py
   24-29.  A text is a sequence of tokens; the paragraph break and the
   sentence end are tokens of two characters that no cut divides. *)

ParagraphBreak == "\n\n"
SentenceEnd == ". "

\* the separators by priority; after the last one comes the hard cut
Separators == <<ParagraphBreak, Newline, SentenceEnd, Space>>

ChunkTokens == {"a", Space, Newline, ParagraphBreak, SentenceEnd}

\* len() of a token
TokenLen(t) == IF t \in {ParagraphBreak, SentenceEnd} THEN 2 ELSE 1

RECURSIVE TextLength(_)
\* len() of a text
TextLength(text) ==
    IF text = <<>> THEN 0 ELSE TokenLen(Head(text)) + TextLength(Tail(text))

RECURSIVE Concat(_)
\* "".join(pieces)
Concat(pieces) ==
    IF pieces = <<>> THEN <<>> ELSE Head(pieces) \o Concat(Tail(pieces))

RECURSIVE SplitKeep(_, _)
\* the pieces of a non-empty text cut before every later occurrence of sep
SplitKeep(text, sep) ==
    IF \E i \in 2..Len(text) : text[i] = sep
    THEN LET i == CHOOSE i \in 2..Len(text) :
                    text[i] = sep /\ \A j \in 2..(i - 1) : text[j] # sep
         IN  <<SubSeq(text, 1, i - 1)>> \o SplitKeep(SubSeq(text, i, Len(text)), sep)
    ELSE <<text>>

RECURSIVE Splits(_, _, _)
RECURSIVE FlatSplits(_, _, _)
\* the pieces of a text: the text itself when it fits, else its pieces at
\* the k-th separator, each cut further with the next separators, and in
\* the end the hard cut into single tokens
Splits(text, size, k) ==
    IF text = <<>> THEN <<>>
    ELSE IF TextLength(text) <= size THEN <<text>>
    ELSE IF k > Len(Separators) THEN [i \in 1..Len(text) |-> <<text[i]>>]
    ELSE FlatSplits(SplitKeep(text, Separators[k]), size, k + 1)

FlatSplits(parts, size, k) ==
    IF parts = <<>> THEN <<>>
    ELSE Splits(Head(parts), size, k) \o FlatSplits(Tail(parts), size, k)

RECURSIVE KeepOverlap(_, _, _, _)
\* the trailing pieces kept as leading context of the next fragment: pieces
\* are dropped from the front until they fit the overlap and leave room for d
KeepOverlap(current, d, size, overlap) ==
    IF current # <<>>
       /\ \/ TextLength(Concat(current)) > overlap
          \/ TextLength(Concat(current)) + TextLength(d) > size
    THEN KeepOverlap(Tail(current), d, size, overlap)
    ELSE current

RECURSIVE MergeSplits_Unbounded(_, _, _, _)
\* MergeSplits never closing a fragment
MergeSplits_Unbounded(splits, current, size, overlap) ==
    IF splits = <<>>
    THEN IF current = <<>> THEN <<>> ELSE <<Concat(current)>>
    ELSE MergeSplits_Unbounded(Tail(splits), Append(current, Head(splits)), size, overlap)

RECURSIVE MergeSplits(_, _, _, _)
\* adjacent pieces are joined into fragments as long as the target size
\* allows; a fragment starts with the overlap kept from the one before
MergeSplits(splits, current, size, overlap) ==
    IF splits = <<>>
    THEN IF current = <<>> THEN <<>> ELSE <<Concat(current)>>
    ELSE LET d == Head(splits)
         IN  IF current # <<>> /\ TextLength(Concat(current)) + TextLength(d) > size
             THEN <<Concat(current)>> \o
                  MergeSplits(Tail(splits),
                              Append(KeepOverlap(current, d, size, overlap), d),
                              size, overlap)
             ELSE MergeSplits(Tail(splits), Append(current, d), size, overlap)

\* the text has only blanks, line breaks and paragraph breaks
BlankText(text) ==
    \A i \in 1..Len(text) : text[i] \in {Space, Newline, ParagraphBreak}

\* chunk(text, target_size, overlap)
chunk(text, target_size, overlap) ==
    IF BlankText(text) THEN <<>>
    ELSE MergeSplits(Splits(text, target_size, 1), <<>>, target_size, overlap)

----------------------------------------------------------------------------
(* Calls of the index operations: vector_store.py 70-130 *)

\* no index operation called yet
IdleCall ==
    [op |-> "none", document_id |-> 0, n_results |-> 0, reply |-> <<>>,
     results |-> <<>>, success |-> FALSE, document_type |-> NoText,
     facts |-> <<(<<>>), (<<>>)>>, chunks |-> <<>>, text |-> <<>>,
     chunk_size |-> 0, chunk_overlap |-> 0, fragments |-> <<>>, raised |-> FALSE]

\* delete_document without the where filter
delete_document_All(idx, document_id) ==
    {[returned |-> TRUE, index |-> {}],
     [returned |-> FALSE, index |-> idx]}

\* delete_document that reports False when no row matched
delete_document_NeedsMatch(idx, document_id) ==
    {[returned |-> \E row \in idx : row.metadata.document_id = document_id,
      index |-> {row \in idx : row.metadata.document_id # document_id}],
     [returned |-> FALSE, index |-> idx]}

\* delete_document(document_id), vector_store.py 123-130: collection.delete
\* removes the rows of the document and True is returned, or it raises and
\* False is returned
delete_document(idx, document_id) ==
    {[returned |-> TRUE,
      index |-> {row \in idx : row.metadata.document_id # document_id}],
     [returned |-> FALSE, index |-> idx]}

\* the document ids a caller passes: 0, never stored, the ids of the stored
\* rows, the id of the last ingested document and the id of the last call
DocumentIds ==
    {0, ing.result.document.id, call.document_id}
        \cup {row.metadata.document_id : row \in index}

\* the sizes asked of a similarity query
SearchKs == {1, 2}

\* a call of delete_document
DeleteCall ==
    /\ \E document_id \in DocumentIds :
        \E deleted \in delete_document(index, document_id) :
            /\ index' = deleted.index
            /\ call' = [IdleCall EXCEPT !.op = "delete",
                                         !.document_id = document_id,
                                         !.success = deleted.returned,
                                         !.raised = ~deleted.returned]
    /\ UNCHANGED <<uuid, ing, rsp, batch, ingests>>

\* a call of get_document_chunks
GetCall ==
    /\ \E document_id \in DocumentIds :
        \E got \in get_document_chunks(index, document_id) :
            call' = [IdleCall EXCEPT !.op = "get",
                                     !.document_id = document_id,
                                     !.results = got.results,
                                     !.raised = ~got.ok]
    /\ UNCHANGED <<index, uuid, ing, rsp, batch, ingests>>

\* a call of search_similar
SearchCall ==
    /\ \E n_results \in SearchKs :
        \E found \in search_similar(index, n_results) :
            call' = [IdleCall EXCEPT !.op = "search",
                                     !.n_results = n_results,
                                     !.results = found.results,
                                     !.raised = ~found.ok]
    /\ UNCHANGED <<index, uuid, ing, rsp, batch, ingests>>

----------------------------------------------------------------------------
(* Batch ingest: legal_ai_system.py 169-189 *)

\* the files a batch names; a path stands for the pages of the file it names
BatchSources == {<<(<<Space>>)>>, <<(<<"a", "b">>)>>}

\* no batch_process_pdfs call made yet
IdleBatch == [pc |-> "idle", pdf_paths |-> <<>>, results |-> <<>>]

\* the record appended for a path, legal_ai_system.py 177-182
BatchRecord(pdf_path, result) ==
    [file        |-> pdf_path,
     success     |-> result.success,
     document_id |-> IF result.document # NoDocument THEN result.document.id ELSE 0,
     error       |-> IF ~result.success THEN result.error_message ELSE None]

\* the loop leaving at the first failed ingest
AfterIteration_StopsOnFailure(b, record) ==
    [b EXCEPT !.results = Append(@, record),
              !.pc = IF Len(b.results) + 1 = Len(b.pdf_paths) \/ ~record.success
                     THEN "done" ELSE "running"]

\* the end of an iteration of the for loop: the record is appended, and the
\* results are returned after the last path
AfterIteration(b, record) ==
    [b EXCEPT !.results = Append(@, record),
              !.pc = IF Len(b.results) + 1 = Len(b.pdf_paths)
                     THEN "done" ELSE "running"]

\* batch_process_pdfs(pdf_paths) is called
BatchStart ==
    /\ batch.pc = "idle"
    /\ \E pdf_paths \in SeqsUpTo(BatchSources, MaxBatch) :
        batch' = [pc        |-> IF pdf_paths = <<>> THEN "done" ELSE "running",
                  pdf_paths |-> pdf_paths,
                  results   |-> <<>>]
    /\ UNCHANGED <<index, uuid, ing, rsp, call, ingests>>

\* one iteration of the loop of batch_process_pdfs
BatchStep ==
    /\ batch.pc = "running"
    /\ LET pdf_path == batch.pdf_paths[Len(batch.results) + 1]
       IN  /\ process_and_store_pdf(pdf_path)
           /\ batch' = AfterIteration(batch, BatchRecord(pdf_path, ing'.result))
    /\ UNCHANGED <<rsp, call, ingests>>

----------------------------------------------------------------------------
(* Specifications *)

\* replies of the Evaluate call tried by the whole system
SampleEvalReplies ==
    {<<CONFIDENCE, "0.8", REASONING, "w">>, <<"w">>, <<CONFIDENCE, "1.5">>}

Init ==
    /\ ingests = IdleIngests
    /\ index = {}
    /\ uuid = 0
    /\ ing = IdleIng
    /\ rsp = IdleRsp
    /\ batch = IdleBatch
    /\ call = IdleCall

Next ==
    \/ Ingest
    \/ generate_response_for_document
    \/ Analyze
    \/ RetrievePrecedents
    \/ Generate
    \/ Evaluate(SampleEvalReplies)

\* the system: ingests and respond calls over one index
Spec == Init /\ [][Next]_vars

\* documents handed to generate_legal_response directly
GenDocuments ==
    {[id               |-> id,
      filename         |-> "f.pdf",
      content          |-> <<"a">>,
      document_type    |-> "contract",
      parties_involved |-> <<(<<"p">>)>>,
      key_issues       |-> <<(<<"i">>)>>] : id \in {1, 2}}

GenRow ==
    [id       |-> 3,
     content  |-> <<"a">>,
     metadata |-> [document_id |-> 1, chunk_index |-> 0, filename |-> "f.pdf",
                   document_type |-> "contract",
                   parties_involved |-> <<(<<"p">>)>>,
                   key_issues |-> <<(<<"i">>)>>]]

InitGen ==
    /\ ingests = IdleIngests
    /\ index \in {{}, {GenRow}}
    /\ uuid = 3
    /\ ing = IdleIng
    /\ \E document \in GenDocuments, response_type \in ResponseTypes :
            rsp = StartGenerate(document, response_type)
    /\ batch = IdleBatch
    /\ call = IdleCall

NextGen ==
    \/ Analyze
    \/ RetrievePrecedents
    \/ Generate
    \/ Evaluate(EvalReplies)

\* one generate_legal_response call, over every Evaluate reply up to the bound
SpecGen == InitGen /\ [][NextGen]_vars

\* an index of four chunks of one document, more than the precedent query asks for
FourRows ==
    {[GenRow EXCEPT !.id = 2 + n, !.metadata.chunk_index = n - 1] : n \in 1..4}

\* generate_legal_response is called over an empty index, one chunk or four chunks
InitPrecedents ==
    /\ ingests = IdleIngests
    /\ index \in {{}, {GenRow}, FourRows}
    /\ uuid = 6
    /\ ing = IdleIng
    /\ \E document \in GenDocuments, response_type \in ResponseTypes :
            rsp = StartGenerate(document, response_type)
    /\ batch = IdleBatch
    /\ call = IdleCall

NextPrecedents ==
    \/ Analyze
    \/ RetrievePrecedents
    \/ Generate
    \/ Evaluate(SampleEvalReplies)

\* one generate_legal_response call over indexes of several sizes
SpecPrecedents == InitPrecedents /\ [][NextPrecedents]_vars

\* an ingest call on the store shared by the index operations
IngestDoc ==
    /\ ing.calls < MaxDocs
    /\ \E pages \in Sources : process_and_store_pdf(pages)
    /\ UNCHANGED <<rsp, batch, call, ingests>>

NextStore ==
    \/ IngestDoc
    \/ DeleteCall
    \/ GetCall

\* ingests, deletions and listings over one index
SpecStore == Init /\ [][NextStore]_vars

NextSearch ==
    \/ Ingest
    \/ SearchCall

\* ingests and similarity queries over one index
SpecSearch == Init /\ [][NextSearch]_vars

NextBatch ==
    \/ BatchStart
    \/ BatchStep

\* one batch_process_pdfs call
SpecBatch == Init /\ [][NextBatch]_vars

\* the metadata dictionaries of the chunks a caller hands to add_chunks
AddMetadatas ==
    {[filename |-> "f.pdf"],
     [filename |-> "f.pdf", document_id |-> 9],
     [filename |-> "f.pdf", chunk_index |-> 7]}

\* the document ids of the chunks a caller hands to add_chunks
AddDocumentIds == {1, 2}

\* a call of add_chunks on a batch of one or two chunks of one document,
\* with fresh chunk ids
AddCall ==
    /\ \E document_id \in AddDocumentIds, metadata \in AddMetadatas, n \in 1..2 :
        /\ uuid + n <= MaxStored
        /\ LET chunks == Chunks([i \in 1..n |-> <<"a">>], document_id, metadata, uuid + 1)
           IN  \E added \in add_chunks(index, chunks) :
                    /\ index' = added.index
                    /\ uuid' = uuid + n
                    /\ call' = [IdleCall EXCEPT !.op = "add",
                                                !.document_id = document_id,
                                                !.chunks = chunks,
                                                !.success = added.returned,
                                                !.raised = ~added.returned]
    /\ UNCHANGED <<ing, rsp, batch, ingests>>

NextAdd ==
    \/ AddCall
    \/ GetCall
    \/ DeleteCall

\* add_chunks, get_document_chunks and delete_document called on one index
SpecAdd == Init /\ [][NextAdd]_vars

\* classify_document_type is about to be called; the model will reply call.reply
InitClassify ==
    /\ ingests = IdleIngests
    /\ index = {}
    /\ uuid = 0
    /\ ing = IdleIng
    /\ rsp = IdleRsp
    /\ batch = IdleBatch
    /\ call \in {[IdleCall EXCEPT !.op = "classify", !.reply = reply] :
                    reply \in AllClassifyReplies}

\* classify_document_type(content), document_processor.py 43-77: the reply is
\* mapped, or the call raises and the except branch returns the default
ClassifyCall ==
    /\ call.op = "classify"
    /\ \/ call' = [call EXCEPT !.op = "classified",
                               !.document_type = MapDocumentType(call.reply)]
       \/ call' = [call EXCEPT !.op = "classified",
                               !.document_type = LEGAL_LETTER,
                               !.raised = TRUE]
    /\ UNCHANGED <<index, uuid, ing, rsp, batch, ingests>>

\* one classify_document_type call, over every reply up to the bound
SpecClassify == InitClassify /\ [][ClassifyCall]_vars

\* extract_parties_and_issues is about to be called; the model will reply call.reply
InitExtract ==
    /\ ingests = IdleIngests
    /\ index = {}
    /\ uuid = 0
    /\ ing = IdleIng
    /\ rsp = IdleRsp
    /\ batch = IdleBatch
    /\ call \in {[IdleCall EXCEPT !.op = "extract", !.reply = reply] :
                    reply \in AllExtractReplies}

\* extract_parties_and_issues(content), document_processor.py 79-115: the
\* reply is parsed, or the call raises and the except branch returns ([], [])
ExtractCall ==
    /\ call.op = "extract"
    /\ \/ call' = [call EXCEPT !.op = "extracted",
                               !.facts = <<ParseParties(call.reply),
                                           ParseIssues(call.reply)>>]
       \/ call' = [call EXCEPT !.op = "extracted",
                               !.facts = <<(<<>>), (<<>>)>>,
                               !.raised = TRUE]
    /\ UNCHANGED <<index, uuid, ing, rsp, batch, ingests>>

\* one extract_parties_and_issues call, over every reply up to the bound
SpecExtract == InitExtract /\ [][ExtractCall]_vars

\* a step of one of the concurrent ingest calls, or the reader's call
NextConcurrent ==
    \/ \E p \in Callers : ProcessPdf(p)
    \/ \E p \in Callers : StoreChunks(p)
    \/ \E p \in Callers : ReturnResult(p)
    \/ generate_response_for_document

\* two ingest calls and a reader, in every interleaving of their steps
SpecConcurrent == Init /\ [][NextConcurrent]_vars

\* chunk is about to be called on a text with a target size and an overlap
InitChunk ==
    /\ ingests = IdleIngests
    /\ index = {}
    /\ uuid = 0
    /\ ing = IdleIng
    /\ rsp = IdleRsp
    /\ batch = IdleBatch
    /\ call \in {[IdleCall EXCEPT !.op = "chunk", !.text = text,
                                  !.chunk_size = target_size,
                                  !.chunk_overlap = overlap] :
                    text \in SeqsUpTo(ChunkTokens, MaxTextLen),
                    target_size \in 1..MaxChunkSize,
                    overlap \in {0, 1}}

\* the Chunker is applied
ChunkCall ==
    /\ call.op = "chunk"
    /\ call.chunk_overlap < call.chunk_size
    /\ call' = [call EXCEPT !.op = "chunked",
                            !.fragments = chunk(call.text, call.chunk_size,
                                                call.chunk_overlap)]
    /\ UNCHANGED <<index, uuid, ing, rsp, batch, ingests>>

\* one call of the Chunker, over every text and target size up to the bounds
SpecChunk == InitChunk /\ [][ChunkCall]_vars

----------------------------------------------------------------------------
(* Properties of generate_legal_response, checked under SpecGen *)

\* the call returned
Returned == rsp.pc = "Done"

\* the call returned and the Evaluate completion call delivered rsp.eval_text
EvaluateReplied == Returned /\ rsp.trace = Stages /\ "Evaluate" \notin rsp.failed

\* the text after the first occurrence of marker
AfterFirst(s, marker) == SubSeq(s, Find(s, marker) + 1, Len(s))

\* the text before the first token of stops, all of it when there is none
UpTo(s, stops) ==
    IF \E i \in 1..Len(s) : s[i] \in stops
    THEN SubSeq(s, 1, (CHOOSE i \in 1..Len(s) :
                          s[i] \in stops /\ \A j \in 1..(i - 1) : s[j] \notin stops) - 1)
    ELSE s

\* the text between CONFIDENCE: and REASONING: (or the next CONFIDENCE:, or the end)
ConfidenceText(reply) == Strip(UpTo(AfterFirst(reply, CONFIDENCE), {CONFIDENCE, REASONING}))

\* the text after REASONING: up to the next marker of that section's end
ReasoningText(reply) == Strip(UpTo(AfterFirst(reply, REASONING), {REASONING, KEY_POINTS}))

ErrorTagged(r) == r.confidence_score = 0 /\ r.tone = "error" /\ r.key_points = <<>>

\* C1: generate_legal_response never raises: whatever calls fail and whatever
\* the Evaluate reply, it returns a full Response or the error-tagged Response
\* (confidence_score 0.0, tone "error", key_points empty).
C1_NeverRaises ==
    Returned =>
        /\ rsp.returned = "Response"
        /\ \/ ErrorTagged(rsp.response)
           \/ /\ rsp.trace = Stages
              /\ rsp.response.suggested_response = rsp.suggested_response
              /\ rsp.response.tone = rsp.response_type

C1_Witness ==
    /\ Returned
    /\ rsp.failed = {"RetrievePrecedents", "Generate"}
    /\ ErrorTagged(rsp.response)

\* C2: the stages run only in the order Analyze, RetrievePrecedents, Generate,
\* Evaluate: every step runs the one stage that follows those already run, no
\* stage runs twice and nothing runs after Done.
C2_StageOrder ==
    [][/\ rsp.pc # "Done"
       /\ Len(rsp.trace) < Len(Stages)
       /\ rsp'.trace = Append(rsp.trace, Stages[Len(rsp.trace) + 1])]_vars

C2_Witness == Returned /\ rsp.trace = Stages /\ rsp.failed = {}

\* C3 as stated: a failure of the call of any single stage is absorbed by that
\* stage; the remaining stages still run and Evaluate runs before Done.
C3_Original ==
    Returned /\ Cardinality(rsp.failed) = 1 => rsp.trace = Stages

\* C3 as amended: a failed precedent query or Evaluate call is absorbed with a
\* default (the no-precedents marker; confidence 0.5, "Evaluation failed", no
\* key points) and the remaining stages run; a failed Analyze or Generate call
\* is not absorbed: the later stages are skipped and the error-tagged Response
\* is returned.
C3_FailureHandling ==
    /\ rsp.pc = "Generating" /\ "RetrievePrecedents" \in rsp.failed =>
            /\ rsp.precedents.header = "No similar precedents found in the knowledge base."
            /\ rsp.precedents.entries = <<>>
    /\ Returned =>
        /\ rsp.failed \cap {"Analyze", "Generate"} = {} => rsp.trace = Stages
        /\ "Analyze" \in rsp.failed =>
                rsp.trace = <<"Analyze">> /\ ErrorTagged(rsp.response)
        /\ "Generate" \in rsp.failed =>
                /\ rsp.trace = <<"Analyze", "RetrievePrecedents", "Generate">>
                /\ ErrorTagged(rsp.response)
        /\ "Evaluate" \in rsp.failed =>
                /\ rsp.response.confidence_score = 5
                /\ rsp.response.reasoning = <<"Evaluation failed">>
                /\ rsp.response.key_points = <<>>
                /\ rsp.response.suggested_response = rsp.suggested_response
                /\ rsp.response.tone = rsp.response_type

C3_Witness ==
    /\ Returned
    /\ rsp.failed = {"RetrievePrecedents", "Evaluate"}
    /\ rsp.trace = Stages
    /\ rsp.response.confidence_score = 5

\* C4: when the reply has no CONFIDENCE: marker, or the text between
\* CONFIDENCE: and REASONING: is not a number, the Response has
\* confidence_score 0.5 and carries the text of the Generate stage.
C4_ConfidenceDefault ==
    EvaluateReplied
    /\ (~InText(CONFIDENCE, rsp.eval_text) \/ ~FloatParses(ConfidenceText(rsp.eval_text)))
    => /\ rsp.response.confidence_score = 5
       /\ rsp.response.suggested_response = rsp.suggested_response

C4_Witness ==
    /\ EvaluateReplied
    /\ InText(CONFIDENCE, rsp.eval_text)
    /\ InText(REASONING, rsp.eval_text)
    /\ ConfidenceText(rsp.eval_text) # <<>>
    /\ ~FloatParses(ConfidenceText(rsp.eval_text))
    /\ rsp.response.confidence_score = 5

NoKeyPointsReply ==
    /\ EvaluateReplied
    /\ InText(CONFIDENCE, rsp.eval_text)
    /\ InText(REASONING, rsp.eval_text)
    /\ ~InText(KEY_POINTS, rsp.eval_text)

\* C6 as stated: for a reply with CONFIDENCE: and REASONING: and no
\* KEY_POINTS:, key_points is [], reasoning is the text after REASONING: and
\* confidence_score is the number of the CONFIDENCE: section.
C6_Original ==
    NoKeyPointsReply =>
        /\ rsp.response.key_points = <<>>
        /\ rsp.response.reasoning = ReasoningText(rsp.eval_text)
        /\ FloatParses(ConfidenceText(rsp.eval_text)) =>
                rsp.response.confidence_score = FloatOf(ConfidenceText(rsp.eval_text))

\* C6 as amended: for such a reply key_points is []; when the CONFIDENCE:
\* number lies within [0,1] confidence_score is that number, when the section
\* is no number it is 0.5, and in both cases reasoning is the text after
\* REASONING:; when the number lies outside [0,1] the error-tagged Response
\* is returned.
C6_MissingKeyPoints ==
    NoKeyPointsReply =>
        LET conf == ConfidenceText(rsp.eval_text)
            parsed == /\ rsp.response.key_points = <<>>
                      /\ rsp.response.reasoning = ReasoningText(rsp.eval_text)
                      /\ rsp.response.suggested_response = rsp.suggested_response
        IN  IF ~FloatParses(conf)
            THEN parsed /\ rsp.response.confidence_score = 5
            ELSE IF 0 <= FloatOf(conf) /\ FloatOf(conf) <= 10
            THEN parsed /\ rsp.response.confidence_score = FloatOf(conf)
            ELSE /\ ErrorTagged(rsp.response)
                 /\ rsp.response.reasoning = <<"Error occurred during response generation">>

C6_Witness ==
    /\ NoKeyPointsReply
    /\ rsp.response.confidence_score = 8
    /\ rsp.response.reasoning = <<"w">>
    /\ rsp.response.key_points = <<>>

\* C7: every returned Response other than the error-tagged one has
\* suggested_response equal to the output of Generate, tone and response_type
\* equal to the requested response_type and document_id equal to the id of the
\* input document.
C7_FullResponseFields ==
    Returned /\ rsp.returned = "Response"
    /\ ~(ErrorTagged(rsp.response)
         /\ rsp.response.suggested_response = "Error generating response. Please try again.")
    => /\ rsp.suggested_response \in GenerateTexts
       /\ rsp.response.suggested_response = rsp.suggested_response
       /\ rsp.response.tone = rsp.response_type
       /\ rsp.response.response_type = rsp.response_type
       /\ rsp.response.document_id = rsp.document.id

C7_Witness ==
    /\ Returned
    /\ rsp.response.suggested_response = "reply B"
    /\ rsp.response.tone = "professional"
    /\ rsp.response.document_id = 2
    /\ rsp.response.key_points # <<>>

----------------------------------------------------------------------------
(* Properties of the system, checked under Spec *)

\* the rows the index holds for a document id
RowsOf(idx, document_id) == {row \in idx : row.metadata.document_id = document_id}

\* this step is the entry of a generate_response_for_document call
RespondStep == rsp.pc \in {"idle", "Done"} /\ rsp' # rsp

\* C8: generate_response_for_document on an id for which the index holds no
\* chunk returns None and starts no generator stage.
C8_NotFound ==
    [][/\ RespondStep /\ RowsOf(index, rsp'.document_id) = {} =>
            rsp'.pc = "Done" /\ rsp'.returned = "None" /\ rsp'.trace = <<>>
       /\ rsp.returned = "None" => rsp'.trace = <<>>]_vars

C8_Witness ==
    /\ rsp.pc = "Done"
    /\ rsp.returned = "None"
    /\ rsp.trace = <<>>
    /\ index # {}
    /\ RowsOf(index, rsp.document_id) = {}

RECURSIVE InIndexOrder(_)
\* the contents of a set of rows in ascending chunk_index order
InIndexOrder(rows) ==
    IF rows = {} THEN <<>>
    ELSE LET first == CHOOSE r \in rows :
                        \A q \in rows : r.metadata.chunk_index <= q.metadata.chunk_index
         IN  <<first.content>> \o InIndexOrder(rows \ {first})

\* C9: the document text handed to the generator is the chunk contents joined
\* in ascending chunk_index order, whatever order the index lists them in.
C9_TextInChunkOrder ==
    rsp.pc = "Analyzing" =>
        rsp.document.content =
            JoinPieces(InIndexOrder(RowsOf(index, rsp.document_id)), Newline)

\* every page of the source is empty or whitespace only
BlankSource(pages) ==
    \A i \in 1..Len(pages) : \A j \in 1..Len(pages[i]) : pages[i][j] \in {" ", "\n"}

\* C10: ingest of a source whose extracted text is empty or whitespace only
\* returns a failure with an error message, no Document and no chunks, does
\* not call add_chunks and leaves the index unchanged.
C10_BlankSourceFails ==
    [][ing'.calls = ing.calls + 1 /\ ing'.readable /\ BlankSource(ing'.source) =>
            /\ ~ing'.result.success
            /\ ing'.result.error_message # "None"
            /\ ing'.result.document = NoDocument
            /\ ing'.result.chunks = <<>>
            /\ ~ing'.add_called
            /\ index' = index
            /\ uuid' = uuid]_vars

C10_Witness ==
    /\ ing.calls = 1
    /\ ing.readable
    /\ ing.source # <<>>
    /\ \E i \in 1..Len(ing.source) : ing.source[i] # <<>>
    /\ BlankSource(ing.source)
    /\ ~ing.result.success
    /\ index = {}

----------------------------------------------------------------------------
(* Properties of ingest, checked under Spec and SpecBatch *)

\* the last process_and_store_pdf call reached add_chunks, which returned False
AddReturnedFalse == ing.add.called /\ ~ing.add.returned

\* C11: when add_chunks returns False during process_and_store_pdf, the result
\* has success False and a non-empty error message, and its document field
\* still holds the Document built from the extracted text.
C11_StoreFailureReported ==
    AddReturnedFalse =>
        /\ ~ing.result.success
        /\ ing.result.error_message \notin {"None", ""}
        /\ ing.result.document # NoDocument
        /\ ing.result.document.content = extract_text_from_pdf(ing.source)
        /\ ing.result.document.id = ing.result.chunks[1].document_id

C11_Witness ==
    /\ AddReturnedFalse
    /\ ing.add.failure = "write"
    /\ Len(ing.result.chunks) = 2
    /\ ing.result.document.content = <<"a", "b">>

\* C12: a process_and_store_pdf call that returns success True with a Document
\* called add_chunks with the document's chunks and got True, so that an
\* ingest whose chunking step yields no fragment is not reported as a success.
C12_SuccessMeansStored ==
    ing.calls > 0 /\ ing.result.success =>
        /\ ing.add.called
        /\ ing.add.returned
        /\ ing.result.chunks # <<>>

\* this step is an iteration of the loop of batch_process_pdfs
IterationStep == batch.pc = "running" /\ batch' # batch

\* C13: batch_process_pdfs over n sources returns n records, the i-th record
\* describing the i-th source; a failed ingest gives a record with success
\* False and every later source is still ingested.
C13_BatchRecords ==
    [][/\ IterationStep =>
            LET i == Len(batch.results) + 1
            IN  /\ Len(batch'.results) = i
                /\ SubSeq(batch'.results, 1, i - 1) = batch.results
                /\ batch'.pdf_paths = batch.pdf_paths
                /\ ing'.calls = ing.calls + 1
                /\ ing'.source = batch.pdf_paths[i]
                /\ batch'.results[i].file = batch.pdf_paths[i]
                /\ batch'.results[i].success = ing'.result.success
                /\ ~ing'.result.success => /\ ~batch'.results[i].success
                                           /\ batch'.results[i].error # "None"
                /\ ing'.result.success =>
                        batch'.results[i].document_id = ing'.result.document.id
       /\ batch'.pc = "done" =>
            /\ Len(batch'.results) = Len(batch'.pdf_paths)
            /\ ing'.calls = Len(batch'.pdf_paths)
            /\ \A i \in 1..Len(batch'.results) :
                    batch'.results[i].file = batch'.pdf_paths[i]]_vars

C13_Witness ==
    /\ batch.pc = "done"
    /\ Len(batch.pdf_paths) = 2
    /\ Len(batch.results) = 2
    /\ ~batch.results[1].success
    /\ batch.results[2].success
    /\ ing.calls = 2

----------------------------------------------------------------------------
(* Properties of the index operations, checked under SpecStore, SpecSearch
   and SpecClassify.  A call that the index serves is one in which no
   exception was raised; a call that raised returns the value of its
   except branch. *)

\* this step is a process_and_store_pdf call
IngestStep == ing'.calls = ing.calls + 1

\* this step is a call of the index operation op that the index served
Served(op) == call' # call /\ call'.op = op /\ ~call'.raised

\* the chunk_index values of a result list
ChunkIndexes(results) == {results[i].metadata.chunk_index : i \in 1..Len(results)}

\* the listings of a document that the index serves
Listings(idx, document_id) ==
    {got.results : got \in {g \in get_document_chunks(idx, document_id) : g.ok}}

\* a result list has n chunks with chunk_index 0..n-1, each once
Contiguous(results, n) ==
    /\ Len(results) = n
    /\ ChunkIndexes(results) = 0..(n - 1)

\* C14: for a document ingested successfully and not deleted since,
\* get_document_chunks returns as many chunks as the ingest produced, with
\* chunk_index values exactly 0..n-1: it holds right after the ingest, and
\* the rows of a document are changed by no step but its own deletion.
C14_ChunkIndexesContiguous ==
    [][/\ IngestStep /\ ing'.result.success =>
            /\ Listings(index', ing'.result.document.id) # {}
            /\ \A results \in Listings(index', ing'.result.document.id) :
                    Contiguous(results, Len(ing'.result.chunks))
       /\ \A row \in index :
            LET d == row.metadata.document_id
            IN  \/ RowsOf(index', d) = RowsOf(index, d)
                \/ /\ call'.op = "delete"
                   /\ call'.document_id = d
                   /\ call'.success
       /\ Served("get") /\ RowsOf(index, call'.document_id) # {} =>
            Contiguous(call'.results, Len(call'.results))]_vars

C14_Witness ==
    /\ call.op = "get"
    /\ ~call.raised
    /\ ing.calls = 2
    /\ ing.result.success
    /\ call.document_id = ing.result.document.id
    /\ Len(ing.result.chunks) = 2
    /\ Contiguous(call.results, 2)
    /\ \E row \in index : row.metadata.document_id # call.document_id

\* C15: after delete_document(d) returned True, get_document_chunks(d) returns
\* []; delete_document for an id the index holds no chunk of, as after a first
\* deletion or for an id never stored, returns True and removes nothing.
C15_DeleteIdempotent ==
    [][call' # call /\ call'.op = "delete" =>
            LET d == call'.document_id
            IN  /\ call'.success =>
                    /\ RowsOf(index', d) = {}
                    /\ \A got \in get_document_chunks(index', d) : got.results = <<>>
                    /\ \E again \in delete_document(index', d) : again.returned
                    /\ \A again \in delete_document(index', d) : again.index = index'
                /\ RowsOf(index, d) = {} =>
                    /\ index' = index
                    /\ ~call'.raised => call'.success]_vars

C15_Witness ==
    /\ call.op = "delete"
    /\ call.success
    /\ call.document_id = ing.result.document.id
    /\ ing.add.returned
    /\ RowsOf(index, call.document_id) = {}
    /\ index # {}

\* C16: a served search_similar(query, k) returns at most k results in
\* non-increasing order of similarity_score, and at least one result when
\* k >= 1 and the index holds a chunk.
C16_SearchResults ==
    [][Served("search") =>
            LET results == call'.results
            IN  /\ Len(results) <= call'.n_results
                /\ \A i \in 1..(Len(results) - 1) :
                        results[i].similarity_score >= results[i + 1].similarity_score
                /\ call'.n_results >= 1 /\ index # {} => Len(results) >= 1
                /\ \A i \in 1..Len(results) :
                        \E row \in index : row.id = results[i].chunk_id]_vars

C16_Witness ==
    /\ call.op = "search"
    /\ ~call.raised
    /\ call.n_results = 2
    /\ Len(call.results) = 2
    /\ call.results[1].similarity_score > call.results[2].similarity_score

\* C17: every SearchResult search_similar returns has similarity_score within
\* [0,1], whatever distance the index reports.
C17_SimilarityInRange ==
    call.op = "search" =>
        \A i \in 1..Len(call.results) :
            call.results[i].similarity_score \in 0..10

\* C18: a served get_document_chunks(d) returns every chunk stored for d,
\* each once, no chunk of another document, each with similarity_score 1.0.
C18_DocumentChunks ==
    [][Served("get") =>
            LET results == call'.results
                d == call'.document_id
            IN  /\ {results[i].chunk_id : i \in 1..Len(results)} =
                        {row.id : row \in RowsOf(index, d)}
                /\ Len(results) = Cardinality(RowsOf(index, d))
                /\ \A i \in 1..Len(results) :
                        /\ results[i].document_id = d
                        /\ results[i].similarity_score = 10
                        /\ \E row \in RowsOf(index, d) :
                                /\ row.id = results[i].chunk_id
                                /\ row.content = results[i].content]_vars

C18_Witness ==
    /\ call.op = "get"
    /\ ~call.raised
    /\ Len(call.results) = 2
    /\ Cardinality(RowsOf(index, call.document_id)) = 2
    /\ \E row \in index : row.metadata.document_id # call.document_id

\* this step is a process_and_store_pdf call that called add_chunks
AddStep == IngestStep /\ ing'.add.called

\* C19: add_chunks is all-or-nothing: when an embedding call or the index
\* write fails it returns False and the index is as before the call, holding
\* none of the batch's chunks; it returns True only when every chunk of the
\* batch was written.
C19_AddAllOrNothing ==
    [][AddStep =>
            LET rows == Rows(ing'.result.chunks)
            IN  /\ ing'.add.failure # "none" =>
                    /\ ~ing'.add.returned
                    /\ index' = index
                    /\ rows \cap index' = {}
                /\ ing'.add.returned =>
                    /\ ing'.add.failure = "none"
                    /\ rows \subseteq index'
                    /\ index' = index \cup rows
                /\ ing'.add.returned \/ ing'.add.failure # "none"]_vars

C19_Witness ==
    /\ ing.add.called
    /\ ing.add.failure = "embedding"
    /\ ing.add.embedded = 1
    /\ Len(ing.result.chunks) = 2
    /\ ~ing.add.returned
    /\ index # {}
    /\ Rows(ing.result.chunks) \cap index = {}

\* C20: classify_document_type never raises and returns a member of the
\* DocumentType set; a reply that, trimmed and lower-cased, is not one of the
\* five category names, and a failure of the model call, give LEGAL_LETTER.
C20_ClassifyTotal ==
    call.op = "classified" =>
        /\ call.document_type \in DocumentType
        /\ call.raised => call.document_type = "legal_letter"
        /\ Lower(Strip(call.reply)) \notin {<<name>> : name \in DocumentType} =>
                call.document_type = "legal_letter"
        /\ ~call.raised /\ Lower(Strip(call.reply)) \in {<<name>> : name \in DocumentType} =>
                call.document_type = Lower(Strip(call.reply))[1]

C20_Witness ==
    /\ call.op = "classified"
    /\ ~call.raised
    /\ call.reply = <<"memo", "\n">>
    /\ call.document_type = "legal_letter"

----------------------------------------------------------------------------
(* Properties of the Evaluate and RetrievePrecedents stages, checked under
   SpecGen and SpecPrecedents *)

\* the call returned after the Evaluate completion call failed
EvaluateFailed == Returned /\ "Evaluate" \in rsp.failed

\* C25: when the Evaluate completion call fails, generate_legal_response
\* returns a Response that is not the error one: it carries the text of the
\* Generate stage, confidence_score 0.5, the reasoning "Evaluation failed",
\* no key points and the requested response_type as tone.
C25_EvaluateFailureAbsorbed ==
    EvaluateFailed =>
        /\ rsp.returned = "Response"
        /\ rsp.trace = Stages
        /\ rsp.response.suggested_response = rsp.suggested_response
        /\ rsp.response.suggested_response \in GenerateTexts
        /\ rsp.response.confidence_score = 5
        /\ rsp.response.reasoning = <<"Evaluation failed">>
        /\ rsp.response.key_points = <<>>
        /\ rsp.response.tone = rsp.response_type
        /\ rsp.response.response_type = rsp.response_type

C25_Witness ==
    /\ EvaluateFailed
    /\ rsp.failed = {"Evaluate"}
    /\ rsp.response_type = "professional"
    /\ rsp.response.tone = "professional"
    /\ rsp.response.suggested_response = "reply A"

\* the precedent query of this call was answered and the block is built
PrecedentsBuilt == rsp.pc = "Generating"

\* this step is the RetrievePrecedents stage
RetrieveStep == rsp.pc = "RetrievingPrecedents" /\ rsp' # rsp

\* C26: RetrievePrecedents asks the index for at most 3 chunks; when the
\* query gives no result, the index being empty or the search failing, the
\* precedent block is the "no precedents found" marker and not an empty
\* string; the pipeline goes on to Generate.
C26_PrecedentBlock ==
    [][RetrieveStep =>
            /\ rsp'.pc = "Generating"
            /\ Len(rsp'.precedents.entries) <= 3
            /\ Len(rsp'.precedents.entries) <= Cardinality(index)
            /\ rsp'.precedents.header # ""
            /\ index = {} \/ "RetrievePrecedents" \in rsp'.failed =>
                    rsp'.precedents.entries = <<>>
            /\ rsp'.precedents.entries = <<>> =>
                    rsp'.precedents.header =
                        "No similar precedents found in the knowledge base."
            /\ rsp'.precedents.entries # <<>> =>
                    rsp'.precedents.header = "Similar precedents found:"]_vars

C26_Witness ==
    /\ PrecedentsBuilt
    /\ Cardinality(index) = 4
    /\ "RetrievePrecedents" \in rsp.failed
    /\ rsp.precedents.entries = <<>>
    /\ rsp.precedents.header = "No similar precedents found in the knowledge base."

\* the Evaluate reply gives a CONFIDENCE number outside [0,1]
ConfidenceOutOfRange ==
    /\ EvaluateReplied
    /\ InText(CONFIDENCE, rsp.eval_text)
    /\ FloatParses(ConfidenceText(rsp.eval_text))
    /\ \/ FloatOf(ConfidenceText(rsp.eval_text)) < 0
       \/ FloatOf(ConfidenceText(rsp.eval_text)) > 10

\* C27: when the CONFIDENCE value of the Evaluate reply is a number outside
\* [0,1], no 0.5 is put in its place: the error Response is returned (fixed
\* error text, confidence_score 0.0, tone "error") and the text of the
\* Generate stage is not in it.
C27_OutOfRangeConfidence ==
    ConfidenceOutOfRange =>
        /\ rsp.returned = "Response"
        /\ rsp.response.suggested_response = "Error generating response. Please try again."
        /\ rsp.response.suggested_response # rsp.suggested_response
        /\ rsp.response.confidence_score = 0
        /\ rsp.response.tone = "error"
        /\ rsp.response.key_points = <<>>

C27_Witness ==
    /\ ConfidenceOutOfRange
    /\ FloatOf(ConfidenceText(rsp.eval_text)) = 15
    /\ rsp.response_type = "professional"
    /\ rsp.suggested_response = "reply A"
    /\ rsp.response.tone = "error"

----------------------------------------------------------------------------
(* Properties of extract_parties_and_issues, checked under SpecExtract *)

\* the call returned after the model replied call.reply
Extracted == call.op = "extracted" /\ ~call.raised

\* the comma-separated items of the text that follows the first occurrence of
\* marker, up to the first token of stops or the end of the reply
ItemsAfter(reply, marker, stops) == ListItems(UpTo(AfterFirst(reply, marker), stops))

\* C21: extract_parties_and_issues never raises: a reply without PARTIES:
\* gives parties = [], a reply without ISSUES: gives issues = [], the field
\* whose marker is present is parsed all the same, and a failed model call
\* gives ([], []).
C21_MissingMarkers ==
    /\ call.op = "extracted" /\ call.raised => call.facts = <<(<<>>), (<<>>)>>
    /\ Extracted =>
        /\ ~InText(PARTIES, call.reply) => call.facts[1] = <<>>
        /\ ~InText(ISSUES, call.reply) => call.facts[2] = <<>>
        /\ InText(PARTIES, call.reply) /\ ~InText(ISSUES, call.reply) =>
                call.facts[1] = ItemsAfter(call.reply, PARTIES, {PARTIES})
        /\ InText(ISSUES, call.reply) /\ ~InText(PARTIES, call.reply) =>
                call.facts[2] = ItemsAfter(call.reply, ISSUES, {ISSUES})

C21_Witness ==
    /\ Extracted
    /\ call.reply = <<ISSUES, "i", Comma, "p">>
    /\ call.facts = <<(<<>>), <<(<<"i">>), (<<"p">>)>>>>

\* C24: the list parsed for a field holds only the comma-separated items that
\* lie between the marker of the field and the next marker or the end of the
\* reply, whatever the order of the markers.
C24_SectionBoundaries ==
    Extracted =>
        /\ InText(PARTIES, call.reply) =>
                call.facts[1] = ItemsAfter(call.reply, PARTIES, {PARTIES, ISSUES})
        /\ InText(ISSUES, call.reply) =>
                call.facts[2] = ItemsAfter(call.reply, ISSUES, {PARTIES, ISSUES})

----------------------------------------------------------------------------
(* Frame of delete_document, checked under SpecStore *)

\* this step is a call of delete_document
DeleteStep == call'.op = "delete" /\ call' # call

\* C30: delete_document(d) leaves the chunks of every other document as they
\* are: get_document_chunks(e) returns the same for every e other than d, and
\* the number of stored chunks drops by the number of chunks d had.
C30_DeleteFrame ==
    [][DeleteStep =>
            LET d == call'.document_id
            IN  /\ index' \subseteq index
                /\ \A row \in index : row.metadata.document_id # d => row \in index'
                /\ \A e \in DocumentIds \ {d} :
                        get_document_chunks(index', e) = get_document_chunks(index, e)
                /\ call'.success =>
                        Cardinality(index') =
                            Cardinality(index) - Cardinality(RowsOf(index, d))
                /\ ~call'.success => index' = index]_vars

C30_Witness ==
    /\ call.op = "delete"
    /\ call.success
    /\ call.document_id = ing.result.document.id
    /\ ing.add.returned
    /\ Len(ing.result.chunks) = 2
    /\ RowsOf(index, call.document_id) = {}
    /\ Cardinality(index) = 2
    /\ \A got \in get_document_chunks(index, 1) : got.ok => Len(got.results) = 2

----------------------------------------------------------------------------
(* The keys of the stored chunks, checked under SpecAdd *)

\* C29: for every chunk written by add_chunks, the document_id and the
\* chunk_index recorded in the metadata of its row are those of the chunk,
\* whatever keys chunk.metadata contains.
C29_StoredKeys ==
    call.op = "add" /\ call.success =>
        \A i \in 1..Len(call.chunks) :
            \E row \in index :
                /\ row.id = call.chunks[i].id
                /\ row.metadata.document_id = call.chunks[i].document_id
                /\ row.metadata.chunk_index = call.chunks[i].chunk_index

----------------------------------------------------------------------------
(* Fragment size of the Chunker, checked under SpecChunk *)

\* a fragment made of one token that alone exceeds the target size
AtomicOversize(fragment, target_size) ==
    Len(fragment) = 1 /\ TokenLen(fragment[1]) > target_size

\* C23: for every target size >= 1 and every text, each fragment the Chunker
\* produces has length <= target size, except a fragment that is a single
\* atomic token exceeding the target size by itself.
C23_FragmentSize ==
    call.op = "chunked" =>
        \A i \in 1..Len(call.fragments) :
            \/ TextLength(call.fragments[i]) <= call.chunk_size
            \/ AtomicOversize(call.fragments[i], call.chunk_size)

C23_Witness ==
    /\ call.op = "chunked"
    /\ call.chunk_size = 2
    /\ call.chunk_overlap = 1
    /\ TextLength(call.text) = 4
    /\ Len(call.fragments) = 3
    /\ \A i \in 1..3 : TextLength(call.fragments[i]) = 2

----------------------------------------------------------------------------
(* Concurrent ingest calls, checked under SpecConcurrent *)

\* both ingest calls have returned
BothComplete == \A p \in Callers : ingests[p].pc = "done"

\* the chunks of a result as (chunk id, content, chunk index)
ChunkSet(chunks) ==
    {<<chunks[i].id, chunks[i].content, chunks[i].chunk_index>> : i \in 1..Len(chunks)}

\* the rows of a listing as (chunk id, content, chunk index)
ListedSet(results) ==
    {<<results[i].chunk_id, results[i].content, results[i].metadata.chunk_index>> :
        i \in 1..Len(results)}

\* C22: after two ingest calls on different sources have completed in any
\* interleaving, the chunks the index lists for each stored document are
\* exactly that document's chunks: the documents have distinct ids, no chunk
\* id is shared, and no chunk is lost or listed under the other document.
C22_ConcurrentIngests ==
    BothComplete =>
        /\ \A p \in Callers :
            ingests[p].result.success =>
                \A got \in get_document_chunks(index, ingests[p].result.document.id) :
                    got.ok => /\ ListedSet(got.results) = ChunkSet(ingests[p].result.chunks)
                              /\ Len(got.results) = Len(ingests[p].result.chunks)
        /\ \A p, q \in Callers :
            p # q =>
                /\ ingests[p].result.document # NoDocument
                   /\ ingests[q].result.document # NoDocument
                   => ingests[p].result.document.id # ingests[q].result.document.id
                /\ \A i \in 1..Len(ingests[p].result.chunks),
                      j \in 1..Len(ingests[q].result.chunks) :
                        ingests[p].result.chunks[i].id # ingests[q].result.chunks[j].id

C22_Witness ==
    /\ BothComplete
    /\ \A p \in Callers : /\ ingests[p].result.success
                          /\ Len(ingests[p].result.chunks) = 2
    /\ Cardinality(index) = 4
    /\ ingests["B"].result.document.id < ingests["A"].result.document.id

\* C28: a generate_response_for_document(d) call that runs while d is being
\* ingested sees none of d's chunks or all of them: the document it rebuilds
\* is never made of a non-empty strict subset of d's chunks.
C28_AllOrNone ==
    rsp.pc = "Analyzing" =>
        \A p \in Callers :
            /\ ingests[p].result.document # NoDocument
            /\ ingests[p].result.document.id = rsp.document.id
            => \E o \in Orders(ChunkSet(ingests[p].result.chunks)) :
                rsp.document.content =
                    JoinPieces([i \in 1..Len(o) |-> o[i][2]], Newline)

C28_Witness ==
    /\ rsp.pc = "Analyzing"
    /\ \E p \in Callers :
        /\ ingests[p].pc = "returning"
        /\ Len(ingests[p].result.chunks) = 2
        /\ ingests[p].result.document.id = rsp.document.id
    /\ \E q \in Callers : ingests[q].pc = "adding"

====
